---- MODULE Spec2Model ----
(***************************************************************************)
(* Model of the response-decoding layer of the go-nntp client:             *)
(*   - ringBuffer (client/ringbuffer.go), the terminator scanner;          *)
(*   - readCompressed / getCompressedReader (client/compressed.go);        *)
(*   - overviewFmt, parseArticleOverview, Over, XOver, readDotLines        *)
(*     (client/client.go).                                                 *)
(* Bytes are modelled as short strings; a line is a sequence of bytes.     *)
(***************************************************************************)
EXTENDS Integers, Sequences, FiniteSets, TLC

\* ------------------------------------------------------------------ bytes
DOT == "."
CR  == "CR"
LF  == "LF"
TAB == "TAB"
SP  == "SP"
NUL == "NUL"     \* the zero byte of a freshly made []byte

\* ----------------------------------------------------------------- bounds
MaxTotal == 4    \* bytes written to a free-standing ringBuffer
MaxWrite == 4    \* largest chunk handed to one Write of a free-standing ringBuffer

\* ---------------------------------------------------------------- helpers
Min(a, b) == IF a < b THEN a ELSE b

SeqsUpTo(S, n) == UNION {[1..k -> S] : k \in 0..n}

Last(s, k) == SubSeq(s, Len(s) - k + 1, Len(s))

EndsWith(s, t) == Len(s) >= Len(t) /\ Last(s, Len(t)) = t

\* ------------------------------------------------------------- ringBuffer
\* term := []byte(".\r\n") in readCompressed
term == <<DOT, CR, LF>>

\* rb := newRingBuffer(3) in readCompressed
TermLen == 3

\* buf := make([]byte, 1024, 1024) in readCompressed
BufSize == 1024

\* alphabet of raw bytes fed to a free-standing ringBuffer
RBBytes == {DOT, CR, LF, "a"}

newRingBuffer(cap) ==
    [Capacity |-> cap,
     Buffer   |-> [i \in 0..(cap - 1) |-> NUL],
     position |-> 0,
     used     |-> 0]

\* the body of the for loop of ringBuffer.Write, iterations i..count-1
RECURSIVE WriteLoop(_, _, _, _, _)
WriteLoop(b, buf, start, count, i) ==
    IF i >= count THEN b
    ELSE LET bufferPos == (b.position + i) % b.Capacity
             b1 == [b EXCEPT !.Buffer[bufferPos] = buf[start + i + 1],
                             !.used = IF b.used < b.Capacity
                                      THEN b.used + 1 ELSE b.used]
         IN  WriteLoop(b1, buf, start, count, i + 1)

\* ringBuffer.Write: position is never advanced by the code
Write(b, buf) ==
    LET bufCount == Len(buf)
        count    == IF b.Capacity > bufCount THEN bufCount ELSE b.Capacity
        start    == bufCount - count
    IN  WriteLoop(b, buf, start, count, 0)

\* ringBuffer.Equals
Equals(b, buf) ==
    IF Len(buf) # b.used THEN FALSE
    ELSE \A i \in 0..(b.used - 1) :
            b.Buffer[(b.position + i) % b.Capacity] = buf[i + 1]

\* the bytes in the order Equals reads them
Window(b) == [i \in 1..b.used |-> b.Buffer[(b.position + (i - 1)) % b.Capacity]]

\* ------------------------------------------------- the compressed envelope
\* zlib is an external library.  It is modelled as an invertible byte-wise
\* recoding of the text, preceded by a header byte and followed by a checksum
\* byte: zlib.NewReader rejects a wrong header, and the reader reports a
\* checksum error in place of io.EOF at the end of the data.
ZHeader == "x"

TextBytes == {"a", SP, DOT, CR, LF}

Deflate == [c \in TextBytes |->
              CASE c = "a" -> LF
                [] c = SP  -> "a"
                [] c = DOT -> CR
                [] c = CR  -> SP
                [] c = LF  -> DOT]

Inflate(z) == CHOOSE c \in TextBytes : Deflate[c] = z

ByteCode == [c \in TextBytes |->
              CASE c = "a" -> 1
                [] c = SP  -> 2
                [] c = DOT -> 3
                [] c = CR  -> 4
                [] c = LF  -> 0]

RECURSIVE ByteSum(_)
ByteSum(text) ==
    IF text = <<>> THEN 0 ELSE (ByteCode[Head(text)] + ByteSum(Tail(text))) % 5

Checksum(text) == CHOOSE c \in TextBytes : ByteCode[c] = ByteSum(text)

\* what the server does before sending: zlib-compress the text
Compress(text) ==
    <<ZHeader>> \o [i \in 1..Len(text) |-> Deflate[text[i]]] \o <<Checksum(text)>>

\* zlib.NewReader(iostream): fails unless the data starts with a zlib header
ZlibHeaderOk(data) == Len(data) >= 1 /\ data[1] = ZHeader

\* the decompressed bytes the zlib reader yields before it ends
ZlibText(data) ==
    LET body == SubSeq(data, 2, Len(data) - 1)
        good == {i \in 1..Len(body) : body[i] \in TextBytes}
        n    == IF \A i \in 1..Len(body) : i \in good THEN Len(body)
                ELSE (CHOOSE i \in 1..Len(body) :
                        i \notin good /\ \A j \in 1..(i - 1) : j \in good) - 1
    IN  [i \in 1..n |-> Inflate(body[i])]

\* how the zlib reader ends: io.EOF after a complete stream with a good
\* checksum, an error otherwise
ZlibEnd(data) ==
    LET body == SubSeq(data, 2, Len(data) - 1)
    IN  IF /\ Len(data) >= 2
           /\ \A i \in 1..Len(body) : body[i] \in TextBytes
           /\ data[Len(data)] = Checksum(ZlibText(data))
        THEN "EOF" ELSE "ZlibErr"

\* strings.TrimSpace
IsSpace(c) == c \in {SP, TAB, CR, LF}

RECURSIVE TrimLeft(_)
TrimLeft(s) ==
    IF s # <<>> /\ IsSpace(Head(s)) THEN TrimLeft(Tail(s)) ELSE s

RECURSIVE TrimRight(_)
TrimRight(s) ==
    IF s # <<>> /\ IsSpace(s[Len(s)]) THEN TrimRight(SubSeq(s, 1, Len(s) - 1)) ELSE s

TrimSpace(s) == TrimRight(TrimLeft(s))

\* index of the first delim in s, 0 when there is none
IndexByte(s, delim) ==
    IF \E i \in 1..Len(s) : s[i] = delim
    THEN CHOOSE i \in 1..Len(s) : s[i] = delim /\ \A j \in 1..(i - 1) : s[j] # delim
    ELSE 0

\* the loop of the compressed branch of readDotLines over the decompressed
\* text: reader.ReadString(0x0A), TrimSpace, f(line).  The callback here
\* collects the lines and never fails.  A last piece without a line feed
\* arrives together with the end of the reader and is not handed to f.
RECURSIVE ReadStringLoop(_, _, _)
ReadStringLoop(text, end, acc) ==
    LET k == IndexByte(text, LF)
    IN  IF k = 0
        THEN [lines |-> acc, err |-> IF end = "EOF" THEN "nil" ELSE end]
        ELSE ReadStringLoop(SubSeq(text, k + 1, Len(text)), end,
                            Append(acc, TrimSpace(SubSeq(text, 1, k))))

\* getCompressedReader after readCompressed succeeded, then the compressed
\* branch of readDotLines
readDotLinesCompressed(data) ==
    IF ~ZlibHeaderOk(data) THEN [lines |-> <<>>, err |-> "ZlibErr"]
    ELSE ReadStringLoop(ZlibText(data), ZlibEnd(data), <<>>)

\* readCompressedLines: the same loop, but an error discards the lines
readCompressedLines(data) ==
    LET r == readDotLinesCompressed(data)
    IN  IF r.err = "nil" THEN r ELSE [lines |-> <<>>, err |-> r.err]

\* the wire form of a list of text lines: each line ends in CR LF
RECURSIVE JoinLines(_)
JoinLines(ls) ==
    IF ls = <<>> THEN <<>> ELSE Head(ls) \o <<CR, LF>> \o JoinLines(Tail(ls))

\* ------------------------------------------------------- overview schema
OverHeaderSubject    == "s"
OverHeaderFrm        == "f"
OverHeaderXRefFull   == "x"
OverHeaderDate       == "d"
OverHeaderMsgId      == "m"
OverHeaderReferences == "r"
OverHeaderBytes      == "b"
OverHeaderLines      == "l"

\* the switch of overviewFmt: what one announcement line appends to res.
\* A Go case does not fall through, so the cases ":bytes" and ":lines" have
\* empty bodies.
HeaderOf(line) ==
    CASE line = "Subject:"    -> <<OverHeaderSubject>>
      [] line = "From:"       -> <<OverHeaderFrm>>
      [] line = "Date:"       -> <<OverHeaderDate>>
      [] line = "Message-ID:" -> <<OverHeaderMsgId>>
      [] line = "References:" -> <<OverHeaderReferences>>
      [] line = ":bytes"      -> <<>>
      [] line = "Bytes"       -> <<OverHeaderBytes>>
      [] line = ":lines"      -> <<>>
      [] line = "Lines"       -> <<OverHeaderLines>>
      [] line = "Xref:full"   -> <<OverHeaderXRefFull>>
      [] OTHER                -> <<>>

\* the loop of overviewFmt if a tag already in res were not appended again
RECURSIVE overviewFmtLoopDedup(_, _)
overviewFmtLoopDedup(lines, res) ==
    IF lines = <<>> THEN res
    ELSE LET h == HeaderOf(Head(lines))
         IN  overviewFmtLoopDedup(Tail(lines),
                 IF h # <<>> /\ \E k \in 1..Len(res) : res[k] = h[1]
                 THEN res ELSE res \o h)

\* the for loop of overviewFmt over the lines ReadDotLines returned
RECURSIVE overviewFmtLoop(_, _)
overviewFmtLoop(lines, res) ==
    IF lines = <<>> THEN res
    ELSE overviewFmtLoop(Tail(lines), res \o HeaderOf(Head(lines)))

\* ------------------------------------------------------- overview records
\* strings.Split(line, sep) for a one-byte separator
RECURSIVE Split(_, _)
Split(str, sep) ==
    LET k == IndexByte(str, sep)
    IN  IF k = 0 THEN <<str>>
        ELSE <<SubSeq(str, 1, k - 1)>> \o Split(SubSeq(str, k + 1, Len(str)), sep)

DigitVal == [c \in {"0", "1", "2", "3", "4", "5", "6", "7", "8", "9"} |->
              CASE c = "0" -> 0 [] c = "1" -> 1 [] c = "2" -> 2 [] c = "3" -> 3
                [] c = "4" -> 4 [] c = "5" -> 5 [] c = "6" -> 6 [] c = "7" -> 7
                [] c = "8" -> 8 [] c = "9" -> 9]

RECURSIVE DecVal(_)
DecVal(str) ==
    IF str = <<>> THEN 0
    ELSE DecVal(SubSeq(str, 1, Len(str) - 1)) * 10 + DigitVal[str[Len(str)]]

\* ParseUint if a string that is no number were read as 0
ParseUintLenient(str) ==
    IF str # <<>> /\ \A i \in 1..Len(str) : str[i] \in DOMAIN DigitVal
    THEN [ok |-> TRUE, val |-> DecVal(str)]
    ELSE [ok |-> TRUE, val |-> 0]

\* strconv.ParseUint(str, 10, bits): a non-empty string of decimal digits.
\* (The range error needs more digits than any text considered here has.)
ParseUint(str) ==
    IF str # <<>> /\ \A i \in 1..Len(str) : str[i] \in DOMAIN DigitVal
    THEN [ok |-> TRUE, val |-> DecVal(str)]
    ELSE [ok |-> FALSE, val |-> 0]

\* parseDate is dateparse.ParseAny, an external heuristic: the byte "d"
\* stands for a well-formed date text, every other text is rejected.
parseDate(str) ==
    IF str = <<"d">> THEN [ok |-> TRUE, val |-> str] ELSE [ok |-> FALSE, val |-> <<>>]

\* &nntp.ArticleOverview{}
ZeroOverview ==
    [Id |-> 0, Subject |-> <<>>, From |-> <<>>, Date |-> <<>>, MessageId |-> <<>>,
     References |-> <<>>, Bytes |-> 0, Lines |-> 0, XRef |-> <<>>]

\* the field an infoSetters entry assigns
FieldOf ==
    [s |-> "Subject", f |-> "From", d |-> "Date", m |-> "MessageId",
     r |-> "References", l |-> "Lines", x |-> "XRef", b |-> "Bytes"]

\* the conversion an infoSetters entry applies to the text
Converted(tag, str) ==
    CASE tag \in {OverHeaderLines, OverHeaderBytes} -> ParseUint(str)
      [] tag = OverHeaderDate -> parseDate(str)
      [] OTHER -> [ok |-> TRUE, val |-> str]

\* infoSetters[tag](overview, str)
infoSetters(tag, overview, str) ==
    LET c == Converted(tag, str)
    IN  IF c.ok THEN [ok |-> TRUE, rec |-> [overview EXCEPT ![FieldOf[tag]] = c.val]]
        ELSE [ok |-> FALSE, rec |-> overview]

\* the loop of parseArticleOverview if a failing setter were skipped instead
\* of aborting the record
RECURSIVE SetterLoopSkipErr(_, _, _, _, _)
SetterLoopSkipErr(res, items, format, i, applied) ==
    IF ~(i < Len(items) /\ i - 1 < Len(format))
    THEN [rec |-> <<res>>, err |-> "nil", applied |-> applied]
    ELSE IF format[i] \in DOMAIN FieldOf
         THEN SetterLoopSkipErr(infoSetters(format[i], res, items[i + 1]).rec,
                                items, format, i + 1, Append(applied, i))
         ELSE SetterLoopSkipErr(res, items, format, i + 1, applied)

\* the for loop of parseArticleOverview from index i on; applied lists the
\* indexes at which a setter was called.  A nil record is <<>>.
RECURSIVE SetterLoop(_, _, _, _, _)
SetterLoop(res, items, format, i, applied) ==
    IF ~(i < Len(items) /\ i - 1 < Len(format))
    THEN [rec |-> <<res>>, err |-> "nil", applied |-> applied]
    ELSE IF format[i] \in DOMAIN FieldOf
         THEN LET r == infoSetters(format[i], res, items[i + 1])
              IN  IF ~r.ok
                  THEN [rec |-> <<>>, err |-> "ParseErr", applied |-> Append(applied, i)]
                  ELSE SetterLoop(r.rec, items, format, i + 1, Append(applied, i))
         ELSE SetterLoop(res, items, format, i + 1, applied)

\* parseArticleOverview with a length check added: a line whose field count
\* differs from the schema's is rejected
parseArticleOverviewStrict(line, format) ==
    LET items == Split(line, TAB)
        id    == ParseUint(items[1])
    IN  IF ~id.ok \/ Len(items) - 1 # Len(format)
        THEN [rec |-> <<>>, err |-> "ParseErr", applied |-> <<>>]
        ELSE SetterLoop([ZeroOverview EXCEPT !.Id = id.val], items, format, 1, <<>>)

parseArticleOverview(line, format) ==
    LET items == Split(line, TAB)
        id    == ParseUint(items[1])
    IN  IF ~id.ok THEN [rec |-> <<>>, err |-> "ParseErr", applied |-> <<>>]
        ELSE SetterLoop([ZeroOverview EXCEPT !.Id = id.val], items, format, 1, <<>>)

\* ------------------------------------------------------ framing of lines
\* A response still to be read is a sequence of lines (wire) and what
\* ReadLine returns once they are used up (end: "EOF" or "ReadErr").
\* Results carry rd, the outcome of the last ReadLine of the call ("dot" for
\* the terminator line, "line" for a data line, "EOF", "ReadErr").

\* the uncompressed branch of readDotLines that answers end-of-stream like a
\* clean terminator
RECURSIVE readDotLinesLoopEofNil(_, _, _, _)
readDotLinesLoopEofNil(wire, end, format, v) ==
    IF wire = <<>>
    THEN [err |-> IF end = "EOF" THEN "nil" ELSE end,
          v |-> v, unread |-> <<>>, rd |-> end]
    ELSE LET l == Head(wire)
         IN  IF Len(l) > 0 /\ l[1] = DOT /\ Len(l) = 1
             THEN [err |-> "nil", v |-> v, unread |-> Tail(wire), rd |-> "dot"]
             ELSE LET l1  == IF Len(l) > 0 /\ l[1] = DOT THEN Tail(l) ELSE l
                      art == parseArticleOverview(l1, format)
                  IN  IF art.err # "nil"
                      THEN [err |-> art.err, v |-> v, unread |-> Tail(wire), rd |-> "line"]
                      ELSE readDotLinesLoopEofNil(Tail(wire), end, format,
                                                  Append(v, art.rec[1]))

\* the uncompressed branch of Client.readDotLines with the callback XOver
\* passes: parseArticleOverview(line, c.overViewFormat), append to v
RECURSIVE readDotLinesLoop(_, _, _, _)
readDotLinesLoop(wire, end, format, v) ==
    IF wire = <<>>
    THEN [err |-> IF end = "EOF" THEN "ErrUnexpectedEOF" ELSE end,
          v |-> v, unread |-> <<>>, rd |-> end]
    ELSE LET l == Head(wire)
         IN  IF Len(l) > 0 /\ l[1] = DOT /\ Len(l) = 1
             THEN [err |-> "nil", v |-> v, unread |-> Tail(wire), rd |-> "dot"]
             ELSE LET l1  == IF Len(l) > 0 /\ l[1] = DOT THEN Tail(l) ELSE l
                      art == parseArticleOverview(l1, format)
                  IN  IF art.err # "nil"
                      THEN [err |-> art.err, v |-> v, unread |-> Tail(wire), rd |-> "line"]
                      ELSE readDotLinesLoop(Tail(wire), end, format,
                                            Append(v, art.rec[1]))

\* the compressed branch of readDotLines under the callback XOver passes:
\* every line ReadString returns is trimmed and parsed, a lone "." included;
\* handed lists the lines the callback was called with
RECURSIVE ReadStringLoopXOver(_, _, _, _, _)
ReadStringLoopXOver(text, end, format, v, handed) ==
    LET k == IndexByte(text, LF)
    IN  IF k = 0
        THEN [err |-> IF end = "EOF" THEN "nil" ELSE end, v |-> v, handed |-> handed]
        ELSE LET l1  == TrimSpace(SubSeq(text, 1, k))
                 art == parseArticleOverview(l1, format)
             IN  IF art.err # "nil"
                 THEN [err |-> art.err, v |-> v, handed |-> Append(handed, l1)]
                 ELSE ReadStringLoopXOver(SubSeq(text, k + 1, Len(text)), end,
                                          format, Append(v, art.rec[1]),
                                          Append(handed, l1))

\* XOver on a client with compression enabled, after readCompressed
\* succeeded: "return nil, err" on an error, "return v, nil" otherwise
XOverCompressed(data, format) ==
    IF ~ZlibHeaderOk(data) THEN [err |-> "ZlibErr", v |-> <<>>, handed |-> <<>>]
    ELSE LET r == ReadStringLoopXOver(ZlibText(data), ZlibEnd(data), format,
                                      <<>>, <<>>)
         IN  [err |-> r.err, v |-> IF r.err = "nil" THEN r.v ELSE <<>>,
              handed |-> r.handed]

\* ReadDotLines if the "." line were delivered with the others
RECURSIVE ReadDotLinesKeepDot(_, _, _)
ReadDotLinesKeepDot(wire, end, v) ==
    IF wire = <<>>
    THEN [err |-> IF end = "EOF" THEN "ErrUnexpectedEOF" ELSE end,
          v |-> v, unread |-> <<>>, rd |-> end]
    ELSE LET l == Head(wire)
         IN  IF Len(l) > 0 /\ l[1] = DOT /\ Len(l) = 1
             THEN [err |-> "nil", v |-> Append(v, l), unread |-> Tail(wire),
                   rd |-> "dot"]
             ELSE ReadDotLinesKeepDot(Tail(wire), end,
                      Append(v, IF Len(l) > 0 /\ l[1] = DOT THEN Tail(l) ELSE l))

\* textproto.Reader.ReadDotLines, which Capabilities calls: lines up to a
\* line that is just ".", one leading dot cut from any other line, and
\* "return v, err" after the loop
RECURSIVE ReadDotLines(_, _, _)
ReadDotLines(wire, end, v) ==
    IF wire = <<>>
    THEN [err |-> IF end = "EOF" THEN "ErrUnexpectedEOF" ELSE end,
          v |-> v, unread |-> <<>>, rd |-> end]
    ELSE LET l == Head(wire)
         IN  IF Len(l) > 0 /\ l[1] = DOT /\ Len(l) = 1
             THEN [err |-> "nil", v |-> v, unread |-> Tail(wire), rd |-> "dot"]
             ELSE ReadDotLines(Tail(wire), end,
                      Append(v, IF Len(l) > 0 /\ l[1] = DOT THEN Tail(l) ELSE l))

\* the loop of Client.Over if a parse error made it read on to the "." line
RECURSIVE OverLoopDrain(_, _, _, _)
OverLoopDrain(wire, end, format, v) ==
    IF wire = <<>>
    THEN [err |-> "nil", v |-> v, unread |-> <<>>, rd |-> end]
    ELSE LET l == Head(wire)
         IN  IF Len(l) > 0 /\ l[1] = DOT /\ Len(l) = 1
             THEN [err |-> "nil", v |-> v, unread |-> Tail(wire), rd |-> "dot"]
             ELSE LET l1  == IF Len(l) > 0 /\ l[1] = DOT THEN Tail(l) ELSE l
                      art == parseArticleOverview(l1, format)
                  IN  IF art.err # "nil"
                      THEN [err |-> art.err, v |-> v, rd |-> "line",
                            unread |-> ReadDotLines(Tail(wire), end, <<>>).unread]
                      ELSE OverLoopDrain(Tail(wire), end, format,
                                         Append(v, art.rec[1]))

\* the for loop of Client.Over: a failed ReadLine sets err and breaks, and
\* the statement after the loop is "return v, nil"
RECURSIVE OverLoop(_, _, _, _)
OverLoop(wire, end, format, v) ==
    IF wire = <<>>
    THEN [err |-> "nil", v |-> v, unread |-> <<>>, rd |-> end]
    ELSE LET l == Head(wire)
         IN  IF Len(l) > 0 /\ l[1] = DOT /\ Len(l) = 1
             THEN [err |-> "nil", v |-> v, unread |-> Tail(wire), rd |-> "dot"]
             ELSE LET l1  == IF Len(l) > 0 /\ l[1] = DOT THEN Tail(l) ELSE l
                      art == parseArticleOverview(l1, format)
                  IN  IF art.err # "nil"
                      THEN [err |-> art.err, v |-> <<>>, unread |-> Tail(wire), rd |-> "line"]
                      ELSE OverLoop(Tail(wire), end, format, Append(v, art.rec[1]))

\* Client.overviewFmt on the server's answer ans to LIST OVERVIEW.FMT:
\* ans.cmdOk (the 215 status line arrived), ans.rdErr (error of ReadDotLines)
overviewFmt(ans) ==
    IF ~ans.cmdOk THEN [res |-> <<>>, err |-> "CmdErr"]
    ELSE IF ans.rdErr # "nil" THEN [res |-> <<>>, err |-> ans.rdErr]
    ELSE [res |-> overviewFmtLoop(ans.lines, <<>>), err |-> "nil"]

\* bounds of the envelope model
MaxLines   == 2   \* text lines in one compressed response
MaxLineLen == 1   \* bytes in one text line
MaxPayload == 3   \* bytes of an arbitrary (not compressed) payload

LineBytes == {"a", SP, DOT}

MaxFmt      == 2   \* lines of one schema announcement
MaxLineSize == 4   \* bytes of one overview line

\* announcement lines considered: both spellings of the size fields, a text
\* field, the date field, and an extension field the client does not know
AnnLines == {"Subject:", "Date:", "Bytes", ":bytes", "Lines", ":lines", "X-Ext:"}

\* bytes of the overview lines considered: a digit, a letter, the byte that
\* stands for a well-formed date, and the field separator
OverBytes == {"1", "a", "d", TAB}

MaxResp == 2       \* lines of one OVER / XOVER response

\* announcement lines and response lines a session is driven with
ClAnnLines == {"Subject:", "Bytes", "X-Ext:"}
WireLines  == {<<DOT>>, <<"1", TAB, "a">>, <<"a">>, <<DOT, "1">>}

\* the answers of the server to LIST OVERVIEW.FMT
FmtAnswers ==
    {[cmdOk |-> FALSE, rdErr |-> "nil", lines |-> <<>>],
     [cmdOk |-> TRUE, rdErr |-> "ErrUnexpectedEOF", lines |-> <<>>]}
    \cup {[cmdOk |-> TRUE, rdErr |-> "nil", lines |-> ls] :
             ls \in SeqsUpTo(ClAnnLines, MaxFmt)}

NoFmtAnswer == [cmdOk |-> TRUE, rdErr |-> "nil", lines |-> <<>>]

VARIABLES rb, written,
          stream, istream, payload, sentLines, rcRet, zres,
          overViewFormat, announce, line, result, ppc,
          compress, ret, unread, negotiated,
          capabilities, loadedCapabilities, connEnd, sentWire, framed

rbVars == <<rb, written>>
rcVars == <<stream, istream, payload, sentLines, rcRet, zres>>

paVars == <<overViewFormat, announce, line, result, ppc>>

clVars == <<compress, ret, unread, negotiated,
            capabilities, loadedCapabilities, connEnd, sentWire, framed>>

vars == <<rb, written, stream, istream, payload, sentLines, rcRet, zres,
          overViewFormat, announce, line, result, ppc,
          compress, ret, unread, negotiated,
          capabilities, loadedCapabilities, connEnd, sentWire, framed>>

\* the Client returned by connect: no schema, no compression, nothing called
CLNew ==
    /\ compress = FALSE
    /\ ret = [op |-> "none", err |-> "nil", v |-> <<>>, rd |-> "none", sent |-> <<>>]
    /\ unread = <<>>
    /\ negotiated = FALSE      \* a LIST OVERVIEW.FMT exchange has succeeded
    /\ capabilities = <<>>
    /\ loadedCapabilities = FALSE
    /\ connEnd = "EOF"         \* what ReadLine returns once unread is used up
    /\ sentWire = <<>>         \* the response lines the server queued
    /\ framed = [mode |-> "none", lines |-> <<>>, err |-> "nil"]

\* the client after EnableCompression succeeded, inside XOver
CLCompressed ==
    /\ compress = TRUE
    /\ ret = [op |-> "none", err |-> "nil", v |-> <<>>, rd |-> "none", sent |-> <<>>]
    /\ unread = <<>>
    /\ negotiated = FALSE      \* a LIST OVERVIEW.FMT exchange has succeeded
    /\ capabilities = <<>>
    /\ loadedCapabilities = FALSE
    /\ connEnd = "EOF"         \* what ReadLine returns once unread is used up
    /\ sentWire = <<>>         \* the response lines the server queued
    /\ framed = [mode |-> "none", lines |-> <<>>, err |-> "nil"]

NoResult == [rec |-> <<>>, err |-> "nil", applied |-> <<>>]

\* the schema variables of a client that has not negotiated
PAIdle ==
    /\ overViewFormat = <<>>
    /\ announce = <<>>
    /\ line = <<>>
    /\ result = NoResult
    /\ ppc = "idle"

\* the envelope variables while no envelope is being read
RCIdle ==
    /\ stream = <<>>
    /\ istream = <<>>
    /\ payload = <<>>
    /\ sentLines = <<>>
    /\ rcRet = "idle"
    /\ zres = [via |-> "none", lines |-> <<>>, err |-> "nil"]

RBInit ==
    /\ rb = newRingBuffer(TermLen)
    /\ written = <<>>

\* one call rb.Write(buf); written is the concatenation of all chunks so far
RBWrite ==
    \E n \in 1..MaxWrite :
      /\ Len(written) + n <= MaxTotal
      /\ \E buf \in [1..n -> RBBytes] :
           /\ rb' = Write(rb, buf)
           /\ written' = written \o buf
    /\ UNCHANGED <<rcVars, paVars, clVars>>

SpecRBInit == RBInit /\ RCIdle /\ PAIdle /\ CLNew
SpecRBNext == RBWrite
SpecRB == SpecRBInit /\ [][SpecRBNext]_vars

\* C1: whenever the bytes written so far end in the terminator, Equals(term)
\* is true, whatever the chunking of the writes was.
C1_MatchAfterTerminator == EndsWith(written, term) => Equals(rb, term)

\* C2: the window, read as Equals reads it, is the last min(K, total) bytes
\* written, in order.
C2_WindowIsTail ==
    Window(rb) = Last(written, Min(rb.Capacity, Len(written)))

\* C3: Equals(term) is true only if at least K bytes were written and the last
\* K bytes written are the terminator.
C3_NoFalseMatch == Equals(rb, term) => EndsWith(written, term)

\* ---------------------------------------------------------- readCompressed
\* the state when readCompressed starts: the server has queued the payload
\* followed by the terminator; stream is what the connection has still to
\* deliver
RCInit ==
    /\ rb = newRingBuffer(TermLen)
    /\ written = <<>>
    /\ istream = <<>>
    /\ rcRet = "reading"
    /\ zres = [via |-> "none", lines |-> <<>>, err |-> "nil"]
    /\ \/ \E ls \in SeqsUpTo(SeqsUpTo(LineBytes, MaxLineLen), MaxLines) :
            /\ sentLines = ls
            /\ payload = Compress(JoinLines(ls))
       \/ \E raw \in SeqsUpTo(RBBytes, MaxPayload) :
            /\ sentLines = <<>>
            /\ payload = raw
    /\ stream = payload \o term

\* one iteration of the loop of readCompressed in which Read returns br bytes
RCRead ==
    /\ rcRet = "reading"
    /\ stream # <<>>
    /\ \E br \in 1..Min(BufSize, Len(stream)) :
         LET sl  == SubSeq(stream, 1, br)
             rb1 == Write(rb, sl)
         IN  /\ rb' = rb1
             /\ written' = written \o sl
             /\ stream' = SubSeq(stream, br + 1, Len(stream))
             /\ IF Equals(rb1, term)
                THEN IF br - 3 < 0
                     THEN /\ rcRet' = "panic"     \* slice bounds out of range
                          /\ istream' = istream
                     ELSE /\ rcRet' = "nil"
                          /\ istream' = istream \o SubSeq(sl, 1, br - 3)
                ELSE /\ rcRet' = "reading"
                     /\ istream' = istream \o sl
    /\ UNCHANGED <<payload, sentLines, zres, paVars, clVars>>

\* the failing iteration if end-of-stream were taken for the end of the envelope
RCReadErrEofAsEnd ==
    /\ rcRet = "reading"
    /\ \E e \in {"EOF", "ReadErr"} :
         /\ rcRet' = IF e = "EOF" THEN "nil" ELSE e
         /\ ret' = IF e = "EOF" THEN ret
                   ELSE [op |-> "XOver", err |-> e, v |-> <<>>, rd |-> "none",
                         sent |-> <<"XOVER">>]
    /\ UNCHANGED <<rb, written, stream, istream, payload, sentLines, zres, paVars,
                   compress, unread, negotiated, capabilities, loadedCapabilities,
                   connEnd, sentWire, framed>>

\* an iteration in which Read fails: the stream has ended or the connection
\* breaks, and what was still to come is never delivered.  readCompressed
\* returns the error, getCompressedReader "return nil, err", readDotLines
\* "return err" and XOver "return nil, err"
RCReadErr ==
    /\ rcRet = "reading"
    /\ \E e \in {"EOF", "ReadErr"} :
         /\ rcRet' = e
         /\ ret' = [op |-> "XOver", err |-> e, v |-> <<>>, rd |-> "none",
                    sent |-> <<"XOVER">>]
    /\ UNCHANGED <<rb, written, stream, istream, payload, sentLines, zres, paVars,
                   compress, unread, negotiated, capabilities, loadedCapabilities,
                   connEnd, sentWire, framed>>

\* the rest of getCompressedReader and the line loop, by either consumer
RCDecode ==
    /\ rcRet = "nil"
    /\ zres.via = "none"
    /\ \E via \in {"readDotLines", "readCompressedLines", "XOver"} :
         IF via = "XOver"
         THEN LET x == XOverCompressed(istream, overViewFormat)
              IN  /\ zres' = [via |-> via, lines |-> x.handed, err |-> x.err]
                  /\ ret' = [op |-> "XOver", err |-> x.err, v |-> x.v,
                             rd |-> "none", sent |-> <<"XOVER">>]
         ELSE LET r == IF via = "readDotLines"
                       THEN readDotLinesCompressed(istream)
                       ELSE readCompressedLines(istream)
              IN  /\ zres' = [via |-> via, lines |-> r.lines, err |-> r.err]
                  /\ ret' = ret
    /\ UNCHANGED <<rb, written, stream, istream, payload, sentLines, rcRet, paVars,
                   compress, unread, negotiated, capabilities, loadedCapabilities,
                   connEnd, sentWire, framed>>

SpecRCInit == RCInit /\ PAIdle /\ CLCompressed
SpecRCNext == RCRead \/ RCReadErr \/ RCDecode
SpecRC == SpecRCInit /\ [][SpecRCNext]_vars

\* the terminator occurs in s at its very end and nowhere before (the
\* protocol's convention for the compressed envelope)
TermOnlyAtEnd(s) ==
    /\ EndsWith(s, term)
    /\ \A i \in 1..(Len(s) - TermLen) : SubSeq(s, i, i + TermLen - 1) # term

\* the payload is the compressed form of the lines the server sent
IsEnvelope == payload = Compress(JoinLines(sentLines))

\* C4: for a stream payload + terminator (the terminator not occurring
\* earlier), in every chunking: once the read that delivers the last
\* terminator byte is done readCompressed has returned nil, and when it
\* returns nil the accumulation buffer holds exactly the payload.
C4_PayloadExact ==
    TermOnlyAtEnd(payload \o term) =>
        /\ (stream = <<>>) => (rcRet = "nil")
        /\ (rcRet = "nil") => (stream = <<>> /\ istream = payload)

\* C7: for every list of text lines, compressed and followed by the
\* terminator, in every chunking: the envelope is read to its end without
\* error and the lines handed on are exactly the lines sent, in order.
C7_RoundTrip ==
    (IsEnvelope /\ TermOnlyAtEnd(payload \o term)) =>
        /\ (stream = <<>>) => (rcRet = "nil")
        /\ (zres.via # "none") => (zres.err = "nil" /\ zres.lines = sentLines)

\* C7, second defect: even when the envelope arrives in a single read, a
\* line with leading or trailing white space is not handed on unmodified.
C7_RoundTripOneRead ==
    (IsEnvelope /\ zres.via # "none" /\ written = payload \o term
       /\ Len(istream) = Len(payload))
        => zres.lines = sentLines

\* ------------------------------------------- schema negotiation and parsing
\* the server's announcement and one overview line, before negotiation
PAInit ==
    /\ overViewFormat = <<>>
    /\ result = NoResult
    /\ ppc = "start"
    /\ announce \in SeqsUpTo(AnnLines, MaxFmt)
    /\ line \in SeqsUpTo(OverBytes, MaxLineSize)

\* c.overViewFormat = fmt after a successful overviewFmt
PANegotiate ==
    /\ ppc = "start"
    /\ overViewFormat' = overviewFmtLoop(announce, <<>>)
    /\ ppc' = "negotiated"
    /\ UNCHANGED <<announce, line, result, rbVars, rcVars, clVars>>

\* parseArticleOverview(line, c.overViewFormat)
PAParse ==
    /\ ppc = "negotiated"
    /\ result' = parseArticleOverview(line, overViewFormat)
    /\ ppc' = "parsed"
    /\ UNCHANGED <<announce, line, overViewFormat, rbVars, rcVars, clVars>>

SpecPAInit == PAInit /\ rb = newRingBuffer(TermLen) /\ written = <<>> /\ RCIdle /\ CLNew
SpecPANext == PANegotiate \/ PAParse
SpecPA == SpecPAInit /\ [][SpecPANext]_vars

\* the tag the schema should hold for an announcement line, both spellings
\* of the size fields included
ClaimedHeaderOf(l) ==
    CASE l \in {"Bytes", ":bytes"} -> <<OverHeaderBytes>>
      [] l \in {"Lines", ":lines"} -> <<OverHeaderLines>>
      [] OTHER -> HeaderOf(l)

RECURSIVE ClaimedSchema(_)
ClaimedSchema(lines) ==
    IF lines = <<>> THEN <<>>
    ELSE ClaimedHeaderOf(Head(lines)) \o ClaimedSchema(Tail(lines))

\* C8: after negotiation the schema holds the bytes tag for every line
\* "Bytes" or ":bytes" and the lines tag for every line "Lines" or ":lines",
\* as it holds the subject tag for "Subject:".
C8_BothSpellings ==
    (ppc # "start") => overViewFormat = ClaimedSchema(announce)

Items == Split(line, TAB)

\* C9: when the announcement contains lines the client does not recognise
\* (and none of the ':' spellings), every setter applied at schema position
\* p is the one of the tag announced at position p, and a record whose
\* values fit the announced fields does not fail.
C9_Aligned ==
    (ppc = "parsed" /\ \A k \in 1..Len(announce) : announce[k] \notin {":bytes", ":lines"})
    => /\ \A k \in 1..Len(result.applied) :
            LET p == result.applied[k]
            IN  p <= Len(announce) /\ HeaderOf(announce[p]) = <<overViewFormat[p]>>
       /\ ( /\ ParseUint(Items[1]).ok
            /\ \A p \in 1..Min(Len(Items) - 1, Len(announce)) :
                  HeaderOf(announce[p]) # <<>>
                    => Converted(HeaderOf(announce[p])[1], Items[p + 1]).ok )
          => result.err = "nil"

\* schema positions the line covers
Covered == Min(Len(Items) - 1, Len(overViewFormat))

SetterFails(p) ==
    /\ overViewFormat[p] \in DOMAIN FieldOf
    /\ ~Converted(overViewFormat[p], Items[p + 1]).ok

\* the first covered position whose setter fails, 0 when none does
FirstFail ==
    IF \E p \in 1..Covered : SetterFails(p)
    THEN CHOOSE p \in 1..Covered :
            SetterFails(p) /\ \A q \in 1..(p - 1) : ~SetterFails(q)
    ELSE 0

\* the value a field must hold: that of the last covered position carrying
\* its tag, the zero value when no covered position carries it
ExpectedField(tag) ==
    LET ps == {p \in 1..Covered : overViewFormat[p] = tag}
    IN  IF ps = {} THEN ZeroOverview[FieldOf[tag]]
        ELSE Converted(tag, Items[(CHOOSE p \in ps : \A q \in ps : q <= p) + 1]).val

\* C10 as stated: every line with a numeric identifier yields a record,
\* whatever the schema.
C10_AlwaysRecord ==
    (ppc = "parsed" /\ ParseUint(Items[1]).ok)
    => (result.err = "nil" /\ Len(result.rec) = 1)

\* C10 (amended): for a line with a numeric identifier, setters are applied
\* at positions 1, 2, ... in increasing order, never beyond min(fields after
\* the identifier, schema length), stopping early only at a setter that
\* fails; an error is returned exactly when a setter at a covered position
\* fails; otherwise a record is returned whose fields hold the values of the
\* covered positions and the zero value for tags at no covered position.
C10_Truncation ==
    (ppc = "parsed" /\ ParseUint(Items[1]).ok)
    => /\ result.applied =
            [p \in 1..(IF FirstFail = 0 THEN Covered ELSE FirstFail) |-> p]
       /\ (result.err = "nil") <=> (FirstFail = 0)
       /\ (FirstFail = 0) =>
             /\ Len(result.rec) = 1
             /\ result.rec[1].Id = ParseUint(Items[1]).val
             /\ \A tag \in DOMAIN FieldOf :
                   result.rec[1][FieldOf[tag]] = ExpectedField(tag)

\* a line with more fields than the schema has been parsed into a record
C10_Witness ==
    /\ ppc = "parsed"
    /\ Len(overViewFormat) >= 1
    /\ Len(Items) - 1 > Len(overViewFormat)
    /\ result.err = "nil"
    /\ Len(result.applied) = Len(overViewFormat)

\* a line with fewer fields than the schema has been parsed into a record
C10_WitnessShortLine ==
    /\ ppc = "parsed"
    /\ Len(Items) - 1 >= 1
    /\ Len(Items) - 1 < Len(overViewFormat)
    /\ result.err = "nil"
    /\ Len(result.applied) = Len(Items) - 1

\* C12: when a setter applied at a covered position fails, the parser
\* returns an error and a nil record, and the failing position is the last
\* one at which a setter was applied.
C12_SetterFailureAborts ==
    (ppc = "parsed" /\ ParseUint(Items[1]).ok /\ FirstFail # 0)
    => /\ result.err = "ParseErr"
       /\ result.rec = <<>>
       /\ result.applied # <<>>
       /\ result.applied[Len(result.applied)] = FirstFail
       /\ \A k \in 1..Len(result.applied) : result.applied[k] <= FirstFail

\* the setter at position 1 has failed while the line covers position 2
C12_Witness ==
    /\ ppc = "parsed"
    /\ ParseUint(Items[1]).ok
    /\ FirstFail = 1
    /\ Covered >= 2
    /\ result.err = "ParseErr"

\* the positions of the announcement lines that overviewFmt recognises
Recognised == {i \in 1..Len(announce) : HeaderOf(announce[i]) # <<>>}

\* the position of the k-th recognised announcement line
NthRecognised(k) ==
    CHOOSE i \in Recognised : Cardinality({j \in Recognised : j <= i}) = k

\* C16: the schema has one entry per recognised announcement line, in
\* announcement order, duplicates kept; and in a parsed record a tag standing
\* at two covered positions holds the value of the later one.
C16_OrderAndDuplicates ==
    (ppc # "start")
    => /\ Len(overViewFormat) = Cardinality(Recognised)
       /\ \A k \in 1..Len(overViewFormat) :
             <<overViewFormat[k]>> = HeaderOf(announce[NthRecognised(k)])
       /\ (ppc = "parsed" /\ result.err = "nil")
            => \A p \in 1..Covered : \A q \in (p + 1)..Covered :
                 (overViewFormat[p] = overViewFormat[q]
                    /\ \A u \in (q + 1)..Covered : overViewFormat[u] # overViewFormat[q])
                 => result.rec[1][FieldOf[overViewFormat[q]]]
                      = Converted(overViewFormat[q], Items[q + 1]).val

\* a record was parsed with the subject tag at two covered positions whose
\* values differ
C16_Witness ==
    /\ ppc = "parsed"
    /\ result.err = "nil"
    /\ Covered = 2
    /\ overViewFormat = <<OverHeaderSubject, OverHeaderSubject>>
    /\ Items[2] # Items[3]

\* ------------------------------------------------------------ the session
\* One call of Over or XOver.  Inputs: the server's answer to
\* LIST OVERVIEW.FMT (used only when the client holds no schema), whether
\* the 224 status line arrives, and the response lines with their end.
CallOverview(op) ==
    \E ans \in (IF Len(overViewFormat) = 0 THEN FmtAnswers ELSE {NoFmtAnswer}),
       cmdOk \in BOOLEAN :
      LET neg  == IF Len(overViewFormat) = 0 THEN overviewFmt(ans)
                  ELSE [res |-> overViewFormat, err |-> "nil"]
          sent == IF Len(overViewFormat) = 0 THEN <<"LIST OVERVIEW.FMT">> ELSE <<>>
          cmd  == CASE op = "Over" -> "OVER" [] op = "XOver" -> "XOVER"
                    [] OTHER -> "XZVER"
      IN  IF neg.err # "nil"
          THEN /\ ret' = [op |-> op, err |-> neg.err, v |-> <<>>, rd |-> "none",
                          sent |-> sent]
               /\ unread' = <<>>
               /\ UNCHANGED <<overViewFormat, negotiated>>
          ELSE /\ overViewFormat' = neg.res
               /\ negotiated' = (negotiated \/ Len(overViewFormat) = 0)
               /\ IF ~cmdOk
                  THEN /\ ret' = [op |-> op, err |-> "CmdErr", v |-> <<>>,
                                  rd |-> "none", sent |-> Append(sent, cmd)]
                       /\ unread' = <<>>
                  ELSE IF op = "Xzver"
                  THEN \* yenc.Decode(c.conn.R), then "return nil, err"
                       /\ \E dec \in {"nil", "DecodeErr"} :
                            ret' = [op |-> op, err |-> dec, v |-> <<>>,
                                    rd |-> "none", sent |-> Append(sent, cmd)]
                       /\ unread' = <<>>
                  ELSE \E wire \in SeqsUpTo(WireLines, MaxResp),
                          end \in {"EOF", "ReadErr"} :
                         LET r == IF op = "Over"
                                  THEN OverLoop(wire, end, neg.res, <<>>)
                                  ELSE readDotLinesLoop(wire, end, neg.res, <<>>)
                         IN  /\ ret' = [op |-> op, err |-> r.err,
                                        v |-> IF r.err = "nil" THEN r.v ELSE <<>>,
                                        rd |-> r.rd, sent |-> Append(sent, cmd)]
                             /\ unread' = r.unread

Over ==
    /\ CallOverview("Over")
    /\ UNCHANGED <<compress, capabilities, loadedCapabilities, connEnd, sentWire,
                   framed, announce, line, result, ppc, rbVars, rcVars>>

\* XOver of a client that has not enabled compression (readDotLines takes
\* its uncompressed branch; the compressed branch is RCRead .. RCDecode)
XOver ==
    /\ ~compress
    /\ CallOverview("XOver")
    /\ UNCHANGED <<compress, capabilities, loadedCapabilities, connEnd, sentWire,
                   framed, announce, line, result, ppc, rbVars, rcVars>>

Xzver ==
    /\ CallOverview("Xzver")
    /\ UNCHANGED <<compress, capabilities, loadedCapabilities, connEnd, sentWire,
                   framed, announce, line, result, ppc, rbVars, rcVars>>

SpecCLInit ==
    /\ CLNew
    /\ overViewFormat = <<>> /\ announce = <<>> /\ line = <<>>
    /\ result = NoResult /\ ppc = "idle"
    /\ rb = newRingBuffer(TermLen) /\ written = <<>> /\ RCIdle
SpecCLNext == Over \/ XOver \/ Xzver
SpecCL == SpecCLInit /\ [][SpecCLNext]_vars

\* C5: when ReadLine reports end-of-stream before a line "." was read,
\* uncompressed XOver returns the unexpected-end error and no records; after
\* a clean terminator line it returns a nil error.
C5_UnexpectedEOF ==
    (ret.op = "XOver") =>
        /\ (ret.rd = "EOF") => (ret.err = "ErrUnexpectedEOF" /\ ret.v = <<>>)
        /\ (ret.rd = "dot") => (ret.err = "nil")

\* XOver has run into end-of-stream after a well-formed record line
C5_Witness ==
    /\ ret.op = "XOver"
    /\ ret.rd = "EOF"
    /\ ret.sent = <<"XOVER">>
    /\ overViewFormat # <<>>

\* C6: when a line read fails while Over collects records, Over returns a
\* non-nil error (the unexpected-end error at end-of-stream).
C6_OverSurfacesFailure ==
    (ret.op = "Over") =>
        /\ (ret.rd = "EOF") => (ret.err = "ErrUnexpectedEOF")
        /\ (ret.rd = "ReadErr") => (ret.err # "nil")

\* C13: once a LIST OVERVIEW.FMT exchange has succeeded, no later call sends
\* LIST OVERVIEW.FMT and the schema keeps its value, whatever it is.
C13_NegotiatedOnce ==
    [][negotiated =>
         /\ \A k \in 1..Len(ret'.sent) : ret'.sent[k] # "LIST OVERVIEW.FMT"
         /\ overViewFormat' = overViewFormat]_vars

\* C20: readCompressed never slices a chunk with a negative bound: whenever
\* the scanner reports a match the chunk just read has at least 3 bytes, so
\* sl[0:br-3] never panics, for every stream and every chunking.
C20_NoNegativeBound == rcRet # "panic"

\* C17: readCompressed succeeds only on a read after which the scanner
\* reports the terminator; when the read fails first, readCompressed returns
\* the error, no reader is made and no line decoded, and XOver returns that
\* error with no records.
C17_TruncatedIsError ==
    /\ (rcRet = "nil") => Equals(rb, term)
    /\ (zres.via # "none") => (rcRet = "nil")
    /\ (rcRet \in {"EOF", "ReadErr"})
          => /\ zres.via = "none"
             /\ ret.op = "XOver" /\ ret.err = rcRet /\ ret.v = <<>>

\* an envelope cut short inside its payload, read to the end of the stream
C17_Witness ==
    /\ IsEnvelope /\ sentLines # <<>>
    /\ rcRet = "EOF" /\ stream # <<>>
    /\ written # <<>> /\ Len(written) < Len(payload)
    /\ ret.err = "EOF" /\ ret.v = <<>>

\* C18: in the compressed path a decompressed line that is just "." ends the
\* response and is not handed to the callback.
C18_BareTerminatorEnds ==
    (IsEnvelope /\ zres.via \in {"readDotLines", "XOver"})
        => \A k \in 1..Len(zres.lines) : zres.lines[k] # <<DOT>>

\* ------------------------------------------- one response on the connection
\* The lines of a response are queued on the connection (unread); ReadLine
\* returns connEnd once they are used up.  The client holds a schema, so the
\* calls do not negotiate.  sentWire is the queue as the latest call found it.
MaxWire == 3       \* lines queued on the connection

FLLines   == {<<DOT>>, <<"1", TAB, "1">>, <<"1", TAB, "a">>, <<"a">>, <<>>,
              <<DOT, "1">>}
FLSchemas == {<<OverHeaderBytes>>, <<OverHeaderSubject>>}

FLInit ==
    /\ overViewFormat \in FLSchemas
    /\ negotiated = TRUE
    /\ unread \in SeqsUpTo(FLLines, MaxWire)
    /\ connEnd \in {"EOF", "ReadErr"}
    /\ sentWire = unread
    /\ compress = FALSE
    /\ ret = [op |-> "none", err |-> "nil", v |-> <<>>, rd |-> "none", sent |-> <<>>]
    /\ capabilities = <<>>
    /\ loadedCapabilities = FALSE
    /\ framed = [mode |-> "none", lines |-> <<>>, err |-> "nil"]
    /\ announce = <<>> /\ line = <<>> /\ result = NoResult /\ ppc = "idle"

\* Over / XOver of a client that holds a schema, on the queued response
FLCall(op) ==
    /\ Len(overViewFormat) # 0
    /\ sentWire' = unread
    /\ \E cmdOk \in BOOLEAN :
         IF ~cmdOk
         THEN /\ ret' = [op |-> op, err |-> "CmdErr", v |-> <<>>, rd |-> "none",
                         sent |-> <<IF op = "Over" THEN "OVER" ELSE "XOVER">>]
              /\ unread' = unread
         ELSE LET r == IF op = "Over"
                       THEN OverLoop(unread, connEnd, overViewFormat, <<>>)
                       ELSE readDotLinesLoop(unread, connEnd, overViewFormat, <<>>)
              IN  /\ ret' = [op |-> op, err |-> r.err,
                             v |-> IF r.err = "nil" THEN r.v ELSE <<>>,
                             rd |-> r.rd,
                             sent |-> <<IF op = "Over" THEN "OVER" ELSE "XOVER">>]
                  /\ unread' = r.unread

FLOver ==
    /\ FLCall("Over")
    /\ UNCHANGED <<overViewFormat, negotiated, compress, connEnd, capabilities,
                   loadedCapabilities, framed, announce, line, result, ppc,
                   rbVars, rcVars>>

FLXOver ==
    /\ ~compress
    /\ FLCall("XOver")
    /\ UNCHANGED <<overViewFormat, negotiated, compress, connEnd, capabilities,
                   loadedCapabilities, framed, announce, line, result, ppc,
                   rbVars, rcVars>>

\* Client.Capabilities; no statement sets loadedCapabilities
Capabilities ==
    /\ sentWire' = unread
    /\ IF ~loadedCapabilities
       THEN \E cmdOk \in BOOLEAN :
              IF ~cmdOk
              THEN /\ ret' = [op |-> "Capabilities", err |-> "CmdErr", v |-> <<>>,
                              rd |-> "none", sent |-> <<"CAPABILITIES">>]
                   /\ UNCHANGED <<unread, capabilities>>
              ELSE LET r == ReadDotLines(unread, connEnd, <<>>)
                   IN  /\ unread' = r.unread
                       /\ IF r.err # "nil"
                          THEN /\ ret' = [op |-> "Capabilities", err |-> r.err,
                                          v |-> <<>>, rd |-> r.rd,
                                          sent |-> <<"CAPABILITIES">>]
                               /\ capabilities' = capabilities
                          ELSE /\ capabilities' = r.v
                               /\ ret' = [op |-> "Capabilities", err |-> "nil",
                                          v |-> r.v, rd |-> r.rd,
                                          sent |-> <<"CAPABILITIES">>]
       ELSE /\ ret' = [op |-> "Capabilities", err |-> "nil", v |-> capabilities,
                       rd |-> "none", sent |-> <<>>]
            /\ UNCHANGED <<unread, capabilities>>
    /\ UNCHANGED <<overViewFormat, negotiated, compress, connEnd,
                   loadedCapabilities, framed, announce, line, result, ppc,
                   rbVars, rcVars>>

SpecFLInit == FLInit /\ rb = newRingBuffer(TermLen) /\ written = <<>> /\ RCIdle
SpecFLNext == FLOver \/ FLXOver \/ Capabilities
SpecFL == SpecFLInit /\ [][SpecFLNext]_vars

\* the lines the latest call took from the connection
Consumed == SubSeq(sentWire, 1, Len(sentWire) - Len(unread))

\* index of the first line of w that is just ".", 0 if there is none
FirstDot(w) ==
    IF \E k \in 1..Len(w) : w[k] = <<DOT>>
    THEN CHOOSE k \in 1..Len(w) :
           w[k] = <<DOT>> /\ \A j \in 1..(k - 1) : w[j] # <<DOT>>
    ELSE 0

\* a data line with its one stuffed dot removed
Unstuff(l) == IF Len(l) > 0 /\ l[1] = DOT THEN Tail(l) ELSE l

\* what the caller is given for the data line l
Delivered(op, l) ==
    IF op = "Capabilities" THEN Unstuff(l)
    ELSE parseArticleOverview(Unstuff(l), overViewFormat).rec[1]

\* the data line l is one the operation can deliver
Deliverable(op, l) ==
    op = "Capabilities" \/ parseArticleOverview(Unstuff(l), overViewFormat).err = "nil"

IsUnsignedDecimal(str) ==
    str # <<>> /\ \A i \in 1..Len(str) : str[i] \in DOMAIN DigitVal

\* the first tab-delimited field of l is not an unsigned decimal integer
BadIdentifier(l) == ~IsUnsignedDecimal(Split(l, TAB)[1])

\* the latest Over / XOver call took a data line with a bad identifier
BadIdConsumed ==
    /\ ret.op \in {"Over", "XOver"}
    /\ \E k \in 1..Len(Consumed) :
         sentWire[k] # <<DOT>> /\ BadIdentifier(Unstuff(sentWire[k]))

\* C11: a line whose first field is not an unsigned decimal integer (the empty
\* line included) makes parseArticleOverview return an error and no record;
\* the Over / XOver call that parsed it fails with no records and leaves the
\* schema as it was before the call.
C11_BadIdentifier ==
    [][/\ \A l \in FLLines :
            BadIdentifier(l) =>
              LET art == parseArticleOverview(l, overViewFormat)
              IN  art.err = "ParseErr" /\ art.rec = <<>>
       /\ BadIdConsumed' =>
            /\ ret'.err = "ParseErr" /\ ret'.v = <<>>
            /\ overViewFormat' = overViewFormat]_vars

\* a record was parsed, then the empty line failed
C11_Witness ==
    /\ BadIdConsumed /\ ret.err = "ParseErr"
    /\ Len(Consumed) >= 2 /\ sentWire[Len(Consumed)] = <<>>

\* index of the first data line before the "." line that does not parse, 0 if
\* there is none
FirstBad ==
    LET d    == FirstDot(sentWire)
        last == IF d = 0 THEN Len(sentWire) ELSE d - 1
        bad  == {k \in 1..last : ~Deliverable(ret.op, sentWire[k])}
    IN  IF bad = {} THEN 0 ELSE CHOOSE k \in bad : \A j \in bad : k <= j

\* C19: when parseArticleOverview fails inside Over or uncompressed XOver the
\* call has taken from the connection exactly the lines up to and including
\* the offending line; every later line, the "." line included, is still
\* unread, in order.
C19_ParseErrorKeepsFraming ==
    (ret.op \in {"Over", "XOver"} /\ ret.err = "ParseErr") =>
        /\ FirstBad # 0
        /\ Len(Consumed) = FirstBad
        /\ unread = SubSeq(sentWire, FirstBad + 1, Len(sentWire))

\* the "." line and a line after it are still unread after the parse error
C19_Witness ==
    /\ ret.op = "Over" /\ ret.err = "ParseErr"
    /\ Len(unread) >= 2 /\ unread[1] = <<DOT>>

\* ------------------------------------------------ one line, in either mode
\* readDotLines with a callback that keeps every line it is handed, on a
\* response of one data line: stuffed (compress is false, the line followed
\* by the "." line) or unstuffed (compress is true, the line compressed).
MaxFrameLen == 3   \* bytes of the data line

FrameBytes == {DOT, "a", SP}

\* the uncompressed branch of readDotLines, the callback appending to acc
RECURSIVE readDotLinesCollect(_, _, _)
readDotLinesCollect(wire, end, acc) ==
    IF wire = <<>>
    THEN [lines |-> acc, err |-> IF end = "EOF" THEN "ErrUnexpectedEOF" ELSE end]
    ELSE LET l == Head(wire)
         IN  IF Len(l) > 0 /\ l[1] = DOT /\ Len(l) = 1
             THEN [lines |-> acc, err |-> "nil"]
             ELSE readDotLinesCollect(Tail(wire), end,
                      Append(acc, IF Len(l) > 0 /\ l[1] = DOT THEN Tail(l) ELSE l))

FRInit ==
    /\ line \in SeqsUpTo(FrameBytes, MaxFrameLen)
    /\ framed = [mode |-> "none", lines |-> <<>>, err |-> "nil"]
    /\ overViewFormat = <<>> /\ announce = <<>> /\ result = NoResult /\ ppc = "idle"
    /\ compress \in BOOLEAN
    /\ ret = [op |-> "none", err |-> "nil", v |-> <<>>, rd |-> "none", sent |-> <<>>]
    /\ unread = <<>> /\ negotiated = FALSE
    /\ capabilities = <<>> /\ loadedCapabilities = FALSE
    /\ connEnd = "EOF" /\ sentWire = <<>>

FRStuffed ==
    /\ framed.mode = "none"
    /\ ~compress
    /\ LET r == readDotLinesCollect(<<line, <<DOT>>>>, "EOF", <<>>)
       IN  framed' = [mode |-> "stuffed", lines |-> r.lines, err |-> r.err]
    /\ UNCHANGED <<compress, ret, unread, negotiated, capabilities,
                   loadedCapabilities, connEnd, sentWire, paVars, rbVars, rcVars>>

FRUnstuffed ==
    /\ framed.mode = "none"
    /\ compress
    /\ LET r == readDotLinesCompressed(Compress(JoinLines(<<line>>)))
       IN  framed' = [mode |-> "unstuffed", lines |-> r.lines, err |-> r.err]
    /\ UNCHANGED <<compress, ret, unread, negotiated, capabilities,
                   loadedCapabilities, connEnd, sentWire, paVars, rbVars, rcVars>>

SpecFRInit == FRInit /\ rb = newRingBuffer(TermLen) /\ written = <<>> /\ RCIdle
SpecFRNext == FRStuffed \/ FRUnstuffed
SpecFR == SpecFRInit /\ [][SpecFRNext]_vars

\* C15: a line beginning with two dots is handed to the callback with exactly
\* one leading dot removed in the uncompressed path, and unmodified in the
\* compressed path.
C15_UnstuffingByMode ==
    (Len(line) >= 2 /\ line[1] = DOT /\ line[2] = DOT) =>
        /\ (framed.mode = "stuffed")
             => (framed.err = "nil" /\ framed.lines = <<Tail(line)>>)
        /\ (framed.mode = "unstuffed")
             => (framed.err = "nil" /\ framed.lines = <<line>>)

\* C21: after a Capabilities call has succeeded, the next Capabilities call
\* sends no CAPABILITIES command and returns the same list.
C21_FetchedOnce ==
    [][(/\ ret.op = "Capabilities" /\ ret.err = "nil"
        /\ ret'.op = "Capabilities")
         => (ret'.sent = <<>> /\ ret'.err = "nil" /\ ret'.v = ret.v)]_vars

\* ------------------------------------------------------------------- Group
MaxMsgLen == 7     \* bytes of the 211 status message

GroupBytes == {"1", "-", SP, "g"}

\* strconv.ParseInt(str, 10, 64): an optional sign, then one or more decimal
\* digits.  (The range error needs more digits than any message here has.)
ParseInt(str) ==
    LET signed == str # <<>> /\ str[1] \in {"+", "-"}
        digits == IF signed THEN Tail(str) ELSE str
    IN  IF digits # <<>> /\ \A i \in 1..Len(digits) : digits[i] \in DOMAIN DigitVal
        THEN [ok |-> TRUE,
              val |-> IF signed /\ str[1] = "-" THEN 0 - DecVal(digits)
                      ELSE DecVal(digits)]
        ELSE [ok |-> FALSE, val |-> 0]

ZeroGroup == [Count |-> 0, Low |-> 0, High |-> 0, Name |-> <<>>]

\* Client.Group after Command returned the message msg of a 211 status line.
\* err and rv are the named results: the error set when len(parts) != 4 is
\* overwritten by the assignment "rv.Count, err = strconv.ParseInt(parts[0]..",
\* and parts[i] with i >= len(parts) is an index out of range.
GroupParse(msg) ==
    LET parts == Split(msg, SP)
        err0  == IF Len(parts) # 4 THEN "ParseResultErr" ELSE "nil"
        cnt   == ParseInt(parts[1])
        rv1   == [ZeroGroup EXCEPT !.Count = cnt.val]
    IN  IF ~cnt.ok THEN [err |-> "ParseErr", rv |-> rv1]
        ELSE IF Len(parts) < 2 THEN [err |-> "panic", rv |-> rv1]
        ELSE LET low == ParseInt(parts[2])
                 rv2 == [rv1 EXCEPT !.Low = low.val]
             IN  IF ~low.ok THEN [err |-> "ParseErr", rv |-> rv2]
                 ELSE IF Len(parts) < 3 THEN [err |-> "panic", rv |-> rv2]
                 ELSE LET high == ParseInt(parts[3])
                          rv3  == [rv2 EXCEPT !.High = high.val]
                      IN  IF ~high.ok THEN [err |-> "ParseErr", rv |-> rv3]
                          ELSE IF Len(parts) < 4 THEN [err |-> "panic", rv |-> rv3]
                          ELSE [err |-> "nil", rv |-> [rv3 EXCEPT !.Name = parts[4]]]

\* the server's 211 message is on its way (line); no call has been made
GRInit ==
    /\ line \in SeqsUpTo(GroupBytes, MaxMsgLen)
    /\ overViewFormat = <<>> /\ announce = <<>> /\ result = NoResult /\ ppc = "idle"
    /\ CLNew

\* Client.Group: Command fails (no 211 status line), or the message is parsed
Group ==
    /\ ret.op = "none"
    /\ \E cmdOk \in BOOLEAN :
         IF ~cmdOk
         THEN ret' = [op |-> "Group", err |-> "CmdErr", v |-> <<ZeroGroup>>,
                      rd |-> "none", sent |-> <<"GROUP">>]
         ELSE LET g == GroupParse(line)
              IN  ret' = [op |-> "Group", err |-> g.err, v |-> <<g.rv>>,
                          rd |-> "none", sent |-> <<"GROUP">>]
    /\ UNCHANGED <<compress, unread, negotiated, capabilities, loadedCapabilities,
                   connEnd, sentWire, framed, paVars, rbVars, rcVars>>

SpecGRInit == GRInit /\ rb = newRingBuffer(TermLen) /\ written = <<>> /\ RCIdle
SpecGRNext == Group
SpecGR == SpecGRInit /\ [][SpecGRNext]_vars

\* C22: when the 211 message does not consist of exactly 4 space-separated
\* parts, Group returns a non-nil error: it does not index past the end of
\* the parts and does not return a nil error.
C22_RejectsMalformed ==
    (ret.op = "Group" /\ Len(Split(line, SP)) # 4)
        => ret.err \notin {"nil", "panic"}

====
